---- MODULE Spec2Model ----
(***************************************************************************)
(* A model of regexfun (src/shorter.py): the expression tree (Literal,     *)
(* And, Or), the recursive-descent parser, the consuming matcher and the   *)
(* fixpoint simplifier.                                                    *)
(*                                                                         *)
(* A tree node is a record [k, c, ops]: k is the class of the object       *)
(* ("Literal", "And", "Or", or "None" for Python's None), c the symbol of  *)
(* a Literal ("" otherwise) and ops the operand list of an And/Or (<<>>    *)
(* otherwise).  A pattern or a subject is a sequence of one-symbol         *)
(* strings.  A Python exception is a value: the name of the exception in   *)
(* the err / res field of the result.                                      *)
(***************************************************************************)
EXTENDS Integers, Sequences, FiniteSets

VARIABLES pc, pattern, pres, tree, other, eqres, sres, subject, mres, smres

vars == <<pc, pattern, pres, tree, other, eqres, sres, subject, mres, smres>>

\* ------------------------------------------------------------------ bounds
MaxPatLen == 5
MaxNodes == 5
MaxOtherNodes == 3
MaxSubjLen == 4

\* The symbols patterns and subjects are drawn from.
Lits == {"a", "b"}
Meta == {"|", "(", ")", "[", "]"}
Alphabet == Lits \cup Meta

\* ------------------------------------------------------- expression tree
NoneT == [k |-> "None", c |-> "", ops |-> <<>>]
Literal(char) == [k |-> "Literal", c |-> char, ops |-> <<>>]
And(operands) == [k |-> "And", c |-> "", ops |-> operands]
Or(operands) == [k |-> "Or", c |-> "", ops |-> operands]

\* type(tree)(*operands)
Make(kind, operands) == [k |-> kind, c |-> "", ops |-> operands]

\* Python's s[1:], which is empty for an empty s
Rest(s) == IF s = <<>> THEN <<>> ELSE Tail(s)

\* ---------------------------------------------------------------- parser
\* A parse function returns (token, rest), or raises: err names the exception.
Ret(token, rest) == [err |-> "", tok |-> token, rest |-> rest]
Raise(e) == [err |-> e, tok |-> NoneT, rest |-> <<>>]

RECURSIVE regex(_), concat(_), group(_), chars(_)

chars(s) ==
    IF s = <<>> THEN Raise("IndexError")
    ELSE IF s[1] \in {"]", ")"} THEN Ret(NoneT, s)
    ELSE LET r == chars(Tail(s)) IN
         IF r.err # "" THEN r
         ELSE IF r.tok # NoneT
              THEN Ret(Or(<<Literal(s[1]), r.tok>>), r.rest)
              ELSE Ret(Literal(s[1]), r.rest)

group(s) ==
    IF s = <<>> THEN Raise("IndexError")
    ELSE IF s[1] = "("
         THEN LET r == regex(Tail(s)) IN
              IF r.err # "" THEN r ELSE Ret(r.tok, Rest(r.rest))
    ELSE IF s[1] = "["
         THEN LET r == chars(Tail(s)) IN
              IF r.err # "" THEN r ELSE Ret(r.tok, Rest(r.rest))
    ELSE Ret(Literal(s[1]), Tail(s))

\* concat with the operands of its And exchanged
concat_swapped(s) ==
    LET g == group(s) IN
    IF g.err # "" THEN g
    ELSE IF g.rest = <<>> \/ g.rest[1] \in {"|", ")"} THEN g
    ELSE LET r == concat(g.rest) IN
         IF r.err # "" THEN r
         ELSE Ret(And(<<r.tok, g.tok>>), r.rest)

concat(s) ==
    LET g == group(s) IN
    IF g.err # "" THEN g
    ELSE IF g.rest = <<>> \/ g.rest[1] \in {"|", ")"} THEN g
    ELSE LET r == concat(g.rest) IN
         IF r.err # "" THEN r
         ELSE Ret(And(<<g.tok, r.tok>>), r.rest)

regex(s) ==
    LET t == concat(s) IN
    IF t.err # "" THEN t
    ELSE IF t.rest = <<>> THEN t
    ELSE IF t.rest[1] = "|"
         THEN LET r == regex(Tail(t.rest)) IN
              IF r.err # "" THEN r
              ELSE Ret(Or(<<t.tok, r.tok>>), r.rest)
    ELSE IF t.rest[1] # ")" THEN Raise("AssertionError")
    ELSE t

parse(s) ==
    LET r == regex(s) IN
    IF r.err # "" THEN r
    ELSE IF r.rest # <<>> THEN Raise("AssertionError")
    ELSE r

\* -------------------------------------------------------------- equality
\* Regex.__eq__ is self.operands == other.operands, a comparison of two Python
\* lists: False at once when the lengths differ, else the elements are compared
\* in order up to the first pair that is unequal or raises.  The operands of a
\* Literal are the one-element list [char]; None and a str have no operands, so
\* comparing a node with either raises AttributeError.
RECURSIVE Eq(_, _), ListEq(_, _)

\* the element-wise part of the list comparison, for lists of equal length
ListEq(xs, ys) ==
    IF xs = <<>> THEN "True"
    ELSE LET e == Eq(xs[1], ys[1]) IN
         IF e = "True" THEN ListEq(Tail(xs), Tail(ys)) ELSE e

Eq(x, y) ==
    IF x.k = "None" /\ y.k = "None" THEN "True"
    ELSE IF x.k = "None" \/ y.k = "None" THEN "AttributeError"
    ELSE IF x.k = "Literal" /\ y.k = "Literal"
         THEN (IF x.c = y.c THEN "True" ELSE "False")
    ELSE IF x.k = "Literal" \/ y.k = "Literal"
         THEN LET n == IF x.k = "Literal" THEN y ELSE x IN
              IF Len(n.ops) # 1 THEN "False"
              ELSE IF n.ops[1].k = "None" THEN "False"
              ELSE "AttributeError"
    ELSE IF Len(x.ops) # Len(y.ops) THEN "False"
    ELSE ListEq(x.ops, y.ops)

\* --------------------------------------------------------------- matcher
\* A call returns its boolean (or the exception it raises) and the cursor as
\* the call leaves it: the list is shared by every nested call.
RECURSIVE Call(_, _), AllOps(_, _), AnyOps(_, _)

\* Literal._match without the s.pop(0)
LiteralMatch_no_pop(t, s) ==
    [res |-> IF s # <<>> /\ s[1] = t.c THEN "True" ELSE "False", rest |-> s]

LiteralMatch(t, s) ==
    IF s # <<>> /\ s[1] = t.c
    THEN [res |-> "True", rest |-> Tail(s)]
    ELSE [res |-> "False", rest |-> s]

\* all([op(s) for op in operands]): every operand is called before all looks
AllOps_eager(operands, s) ==
    IF operands = <<>> THEN [res |-> "True", rest |-> s]
    ELSE LET r == Call(operands[1], s)
             later == AllOps(Tail(operands), r.rest)
         IN  IF r.res = "TypeError" THEN r
             ELSE [res |-> IF r.res = "True" THEN later.res ELSE r.res,
                   rest |-> later.rest]

\* all(op(s) for op in operands): stops at the first operand that is not true
AllOps(operands, s) ==
    IF operands = <<>> THEN [res |-> "True", rest |-> s]
    ELSE LET r == Call(operands[1], s) IN
         IF r.res = "True" THEN AllOps(Tail(operands), r.rest) ELSE r

\* any(op(s) for op in operands): stops at the first operand that is not false
AnyOps(operands, s) ==
    IF operands = <<>> THEN [res |-> "False", rest |-> s]
    ELSE LET r == Call(operands[1], s) IN
         IF r.res = "False" THEN AnyOps(Tail(operands), r.rest) ELSE r

AndMatch(t, s) == AllOps(t.ops, s)

OrMatch(t, s) == AnyOps(t.ops, s)

\* Regex.__call__ on a cursor; calling None raises TypeError
Call(t, s) ==
    IF t.k = "Literal" THEN LiteralMatch(t, s)
    ELSE IF t.k = "And" THEN AndMatch(t, s)
    ELSE IF t.k = "Or" THEN OrMatch(t, s)
    ELSE [res |-> "TypeError", rest |-> s]

\* ------------------------------------------------------------ simplifier
RECURSIVE InnerOps(_)
\* [inner_op for op in to_move for inner_op in op.operands]
InnerOps(to_move) ==
    IF to_move = <<>> THEN <<>>
    ELSE to_move[1].ops \o InnerOps(Tail(to_move))

\* combine_operators with the pulled-up operands put first
combine_operators_moved_first(t, operator) ==
    IF t.k = operator
    THEN LET IsOp(op) == op.k = operator
             NotOp(op) == op.k # operator
             to_move == SelectSeq(t.ops, IsOp)
         IN  Make(t.k, InnerOps(to_move) \o SelectSeq(t.ops, NotOp))
    ELSE NoneT

\* returns None (falls off the end) when tree is not an instance of operator
combine_operators(t, operator) ==
    IF t.k = operator
    THEN LET IsOp(op) == op.k = operator
             NotOp(op) == op.k # operator
             to_move == SelectSeq(t.ops, IsOp)
         IN  Make(t.k, SelectSeq(t.ops, NotOp) \o InnerOps(to_move))
    ELSE NoneT

combine_ands(t) == combine_operators(t, "And")

combine_ors(t) == combine_operators(t, "And")

ApplyTransform(f, t) ==
    IF f = "combine_ands" THEN combine_ands(t) ELSE combine_ors(t)

RECURSIVE Reduce(_, _)
\* reduce(lambda t, f: f(t), transforms, tree)
Reduce(transforms, t) ==
    IF transforms = <<>> THEN t
    ELSE Reduce(Tail(transforms), ApplyTransform(transforms[1], t))

RECURSIVE run_until_unchanged(_, _)
run_until_unchanged(t, transforms) ==
    LET new_tree == Reduce(transforms, t)
        e == Eq(new_tree, t)
    IN  IF e = "True" THEN [err |-> "", tree |-> t]
        ELSE IF e = "False" THEN run_until_unchanged(new_tree, transforms)
        ELSE [err |-> e, tree |-> NoneT]

simplify(t) == run_until_unchanged(t, <<"combine_ors", "combine_ands">>)

\* ----------------------------------------------------------------- inputs
RECURSIVE SeqsUpTo(_, _)
SeqsUpTo(S, n) ==
    IF n = 0 THEN {<<>>}
    ELSE LET prev == SeqsUpTo(S, n - 1) IN
         prev \cup {<<x>> \o w : x \in S, w \in {v \in prev : Len(v) = n - 1}}

Patterns == SeqsUpTo(Alphabet, MaxPatLen)
Subjects == SeqsUpTo(Lits, MaxSubjLen)

\* The trees of exactly n nodes that the constructors build from Lits, and the
\* operand lists (of one tree or more) of n nodes in all.
RECURSIVE TreesOfSize(_), ForestsOfSize(_)
TreesOfSize(n) ==
    IF n = 1 THEN {Literal(ch) : ch \in Lits}
    ELSE {And(f) : f \in ForestsOfSize(n - 1)} \cup {Or(f) : f \in ForestsOfSize(n - 1)}

ForestsOfSize(n) ==
    {<<t>> : t \in TreesOfSize(n)} \cup
    UNION {{<<t>> \o f : t \in TreesOfSize(i), f \in ForestsOfSize(n - i)} : i \in 1..(n - 1)}

Trees == UNION {TreesOfSize(n) : n \in 1..MaxNodes}
OtherTrees == UNION {TreesOfSize(n) : n \in 1..MaxOtherNodes}

NoRes == [res |-> "", rest |-> <<>>]
NoSimp == [err |-> "", tree |-> NoneT]

\* ------------------------------------------------------------ the pipeline
\* __main__: parse the pattern, simplify the tree, call the simplified tree on
\* the subject; the parsed tree is then called on the same subject.
Init ==
    /\ pc = "start"
    /\ pattern \in Patterns
    /\ pres = Raise("")
    /\ tree = NoneT
    /\ other = NoneT
    /\ eqres = ""
    /\ sres = NoSimp
    /\ subject = <<>>
    /\ mres = NoRes
    /\ smres = NoRes

\* p = parse(sys.argv[1])
DoParse ==
    /\ pc = "start"
    /\ pres' = parse(pattern)
    /\ tree' = pres'.tok
    /\ pc' = IF pres'.err = "" THEN "parsed" ELSE "parse_error"
    /\ UNCHANGED <<pattern, other, eqres, sres, subject, mres, smres>>

\* s = simplify(p)
DoSimplify ==
    /\ pc \in {"parsed", "built"}
    /\ sres' = simplify(tree)
    /\ pc' = IF sres'.err = "" THEN "simplified" ELSE "simplify_error"
    /\ UNCHANGED <<pattern, pres, tree, other, eqres, subject, mres, smres>>

\* s(sys.argv[2]): the str is copied to a fresh list, the cursor of this call
CallSimplified ==
    /\ pc = "simplified"
    /\ \E s \in Subjects :
         /\ subject' = s
         /\ smres' = Call(sres.tree, s)
    /\ pc' = "matched"
    /\ UNCHANGED <<pattern, pres, tree, other, eqres, sres, mres>>

\* p(sys.argv[2]): another fresh cursor over the same subject
CallParsed ==
    /\ pc = "matched"
    /\ mres' = Call(tree, subject)
    /\ pc' = "done"
    /\ UNCHANGED <<pattern, pres, tree, other, eqres, sres, subject, smres>>

Next == DoParse \/ DoSimplify \/ CallSimplified \/ CallParsed

Spec == Init /\ [][Next]_vars

\* ------------------------------------------------- trees built directly
\* The library used as the doctests use it: a tree is built with the
\* constructors, and then compared, simplified or called.
InitTree ==
    /\ pc = "built"
    /\ tree \in Trees
    /\ pattern = <<>>
    /\ pres = Raise("")
    /\ other = NoneT
    /\ eqres = ""
    /\ sres = NoSimp
    /\ subject = <<>>
    /\ mres = NoRes
    /\ smres = NoRes

\* tree == o
Compare ==
    /\ pc = "built"
    /\ \E o \in OtherTrees :
         /\ other' = o
         /\ eqres' = Eq(tree, o)
    /\ pc' = "compared"
    /\ UNCHANGED <<pattern, pres, tree, sres, subject, mres, smres>>

\* tree(s)
CallTree ==
    /\ pc = "built"
    /\ \E s \in Subjects :
         /\ subject' = s
         /\ mres' = Call(tree, s)
    /\ pc' = "called"
    /\ UNCHANGED <<pattern, pres, tree, other, eqres, sres, smres>>

NextTree == Compare \/ DoSimplify \/ CallTree

SpecTree == InitTree /\ [][NextTree]_vars

\* ------------------------------------------------------------------ claims
\* Two nodes are the same variant with pairwise the same operands, in order
\* (literals by symbol).
RECURSIVE SameNode(_, _)
SameNode(x, y) ==
    /\ x.k = y.k
    /\ x.c = y.c
    /\ Len(x.ops) = Len(y.ops)
    /\ \A i \in 1..Len(x.ops) : SameNode(x.ops[i], y.ops[i])

\* C1: x == y holds if and only if x and y are the same variant and their
\* operand sequences have the same length and are pairwise equal in order; an
\* And and an Or with equal operand lists are not equal.
C1_EqualityIsStructural ==
    pc = "compared" => (eqres = "True" <=> SameNode(tree, other))

\* C2: simplify is total: whatever the variant of the root, simplify(tree)
\* returns an expression tree and raises nothing.
C2_SimplifyTotal ==
    pc \in {"simplified", "simplify_error"} =>
        /\ sres.err = ""
        /\ sres.tree.k \in {"Literal", "And", "Or"}

RECURSIVE NoSameKindNesting(_)
NoSameKindNesting(t) ==
    \A i \in 1..Len(t.ops) :
        /\ ~(t.k \in {"And", "Or"} /\ t.ops[i].k = t.k)
        /\ NoSameKindNesting(t.ops[i])

\* C3: in the tree simplify returns, no And anywhere has an And as a direct
\* operand and no Or anywhere has an Or as a direct operand.
C3_FullyFlattened ==
    pc = "simplified" => NoSameKindNesting(sres.tree)

LiteralOnly(p) == \A i \in 1..Len(p) : p[i] \notin {"|", "(", "[", ")", "]"}

\* The literal symbols of a tree, left to right.
RECURSIVE Symbols(_), SymbolsOfList(_)
Symbols(t) ==
    IF t.k = "Literal" THEN <<t.c>> ELSE SymbolsOfList(t.ops)

SymbolsOfList(ts) ==
    IF ts = <<>> THEN <<>> ELSE Symbols(ts[1]) \o SymbolsOfList(Tail(ts))

\* And(w1, And(w2, ... And(w(n-1), wn))), and the bare Literal for n = 1
RECURSIVE RightChain(_)
RightChain(w) ==
    IF w = <<>> THEN NoneT
    ELSE IF Len(w) = 1 THEN Literal(w[1])
    ELSE And(<<Literal(w[1]), RightChain(Tail(w))>>)

\* And(w1, w2, ..., wn)
FlatAnd(w) == And([i \in 1..Len(w) |-> Literal(w[i])])

IsLiteralChain(t) ==
    /\ t.k = "And"
    /\ t = RightChain(Symbols(t))

\* C4: simplifying the right-nested chain And(c1, And(c2, ... cn)) of n >= 2
\* literals stops and returns the flat And(c1, ..., cn), the literals in
\* their original order.
C4_ChainFlattens ==
    (pc \in {"simplified", "simplify_error"} /\ IsLiteralChain(tree)) =>
        sres = [err |-> "", tree |-> FlatAnd(Symbols(tree))]

C4_Witness ==
    /\ pc = "simplified"
    /\ LiteralOnly(pattern)
    /\ IsLiteralChain(tree)
    /\ Len(Symbols(tree)) >= 4
    /\ Symbols(tree)[1] # Symbols(tree)[2]
    /\ sres.tree = FlatAnd(Symbols(tree))
    /\ sres.tree # tree

\* C5: a pattern of n >= 1 symbols, none of them | ( [ ) ], parses to the bare
\* Literal for n = 1 and to the right-associated binary chain of its symbols,
\* in order, for n >= 2.
C5_LiteralPatternParsesToChain ==
    (pc # "start" /\ Len(pattern) >= 1 /\ LiteralOnly(pattern)) =>
        /\ pres = Ret(RightChain(pattern), <<>>)
        /\ tree = RightChain(pattern)

C5_Witness ==
    /\ pc = "parsed"
    /\ LiteralOnly(pattern)
    /\ Len(pattern) >= 3
    /\ pattern[1] # pattern[2]
    /\ tree = RightChain(pattern)

\* Whether the pattern ends while a ( or a [ still waits for its closing
\* delimiter: depth counts the open parentheses, inClass is set inside [ ].
RECURSIVE OpenAtEnd(_, _, _)
OpenAtEnd(p, depth, inClass) ==
    IF p = <<>> THEN depth > 0 \/ inClass
    ELSE IF inClass THEN OpenAtEnd(Tail(p), depth, p[1] # "]")
    ELSE IF p[1] = "[" THEN OpenAtEnd(Tail(p), depth, TRUE)
    ELSE IF p[1] = "(" THEN OpenAtEnd(Tail(p), depth + 1, FALSE)
    ELSE IF p[1] = ")" /\ depth > 0 THEN OpenAtEnd(Tail(p), depth - 1, FALSE)
    ELSE OpenAtEnd(Tail(p), depth, FALSE)

\* C6: for every pattern in which the input ends while a ( or a [ is still
\* waiting for its closing delimiter, parse fails and returns no tree.
C6_UnclosedDelimiterFails ==
    (pc # "start" /\ OpenAtEnd(pattern, 0, FALSE)) => pres.err # ""

RECURSIVE WellFormedBinary(_)
WellFormedBinary(t) ==
    \/ t.k = "Literal"
    \/ /\ t.k \in {"And", "Or"}
       /\ Len(t.ops) = 2
       /\ \A i \in 1..2 : WellFormedBinary(t.ops[i])

\* C7: the tree of a successful parse is a Literal, And or Or, and every
\* And/Or in it has exactly two operands, each a Literal, And or Or, never
\* an absent value.
C7_ParsedTreeIsBinary ==
    (pc # "start" /\ pres.err = "") => WellFormedBinary(tree)

AndOfLiterals(t) ==
    /\ t.k = "And"
    /\ \A i \in 1..Len(t.ops) : t.ops[i].k = "Literal"

\* C8: an And of the literals c1..cn matches a subject if and only if the
\* subject has at least n symbols and its first n are c1..cn in order; what
\* follows that prefix never fails the match, and the empty subject fails.
C8_PrefixMatch ==
    (pc = "called" /\ AndOfLiterals(tree)) =>
        (mres.res = "True" <=>
            /\ Len(subject) >= Len(tree.ops)
            /\ \A i \in 1..Len(tree.ops) : subject[i] = tree.ops[i].c)

C8_Witness ==
    /\ pc = "called"
    /\ AndOfLiterals(tree)
    /\ Len(tree.ops) >= 2
    /\ tree.ops[1] # tree.ops[2]
    /\ Len(subject) > Len(tree.ops)
    /\ mres.res = "True"

\* The cursor after the first j operands were called in order, each on the
\* cursor the one before left.
RECURSIVE CursorAfter(_, _, _)
CursorAfter(operands, j, s) ==
    IF j = 0 THEN s
    ELSE Call(operands[j], CursorAfter(operands, j - 1, s)).rest

\* The first operand whose call, on the cursor its predecessors left, does not
\* return stop; 0 when there is none.
FirstNot(operands, stop, s) ==
    LET hits == {i \in 1..Len(operands) :
                    Call(operands[i], CursorAfter(operands, i - 1, s)).res # stop}
    IN  IF hits = {} THEN 0 ELSE CHOOSE i \in hits : \A j \in hits : i <= j

IsSuffix(r, s) ==
    /\ Len(r) <= Len(s)
    /\ r = SubSeq(s, Len(s) - Len(r) + 1, Len(s))

\* C9: consumption is never rolled back.  A matching Literal removes exactly
\* the front element and a failing one removes nothing; a call only ever
\* removes elements from the front; when an operand of an And fails the cursor
\* stays where that operand left it and the later operands are not called; an
\* Or calls its next alternative on the cursor the failed ones left.
C9_NoRollback ==
    pc = "called" =>
        /\ IsSuffix(mres.rest, subject)
        /\ tree.k = "Literal" =>
              mres = IF subject # <<>> /\ subject[1] = tree.c
                     THEN [res |-> "True", rest |-> Tail(subject)]
                     ELSE [res |-> "False", rest |-> subject]
        /\ tree.k = "And" =>
              LET i == FirstNot(tree.ops, "True", subject) IN
              IF i = 0
              THEN mres = [res |-> "True",
                           rest |-> CursorAfter(tree.ops, Len(tree.ops), subject)]
              ELSE mres = [res |-> "False", rest |-> CursorAfter(tree.ops, i, subject)]
        /\ tree.k = "Or" =>
              LET i == FirstNot(tree.ops, "False", subject) IN
              IF i = 0
              THEN mres = [res |-> "False",
                           rest |-> CursorAfter(tree.ops, Len(tree.ops), subject)]
              ELSE mres = [res |-> "True", rest |-> CursorAfter(tree.ops, i, subject)]

\* An Or whose first alternative, an And, fails after consuming a symbol, and
\* whose second alternative then matches where the first left the cursor but
\* would not match where the Or started.
C9_Witness ==
    /\ pc = "called"
    /\ tree.k = "Or"
    /\ Len(tree.ops) = 2
    /\ tree.ops[1].k = "And"
    /\ Call(tree.ops[1], subject).res = "False"
    /\ Len(Call(tree.ops[1], subject).rest) < Len(subject)
    /\ Call(tree.ops[2], subject).res = "False"
    /\ mres.res = "True"

\* C10: for every pattern parse accepts and whose tree simplify returns a
\* tree for, the simplified tree and the parsed tree give the same boolean on
\* every subject.
C10_SimplifyPreservesMatch ==
    pc = "done" => smres.res = mres.res
====
